---- MODULE Spec2Model ----
(***************************************************************************)
(* Queue manager for event attractions (app.py).                           *)
(*                                                                         *)
(* The state is the two tables of the database (attractions, queue), the   *)
(* id generators of both tables, the database clock, and for every         *)
(* request being served the position of its handler and the handler's     *)
(* local variables.  Every action is one SQL statement of a handler        *)
(* together with the Python code that follows it up to the next statement; *)
(* a statement that is followed directly by conn.commit() is one step with *)
(* its commit.  delete_attraction, the only handler with two statements in *)
(* one transaction, keeps its first DELETE uncommitted until the second.   *)
(***************************************************************************)
EXTENDS Integers, Sequences, FiniteSets, TLC

(* ------------------------------ bounds -------------------------------- *)
MaxAttrId == 2
MaxQueueId == 3
MaxClock == 1

Procs == {1, 2}

\* attraction names, in ascending lexicographic order
NameOrder == <<"", "A", "B">>
Names == {NameOrder[i] : i \in 1..Len(NameOrder)}
Descriptions == {"", "d1"}
\* the form field duration_minutes: <<>> when the field is absent
DurationFields == {<<>>, <<0>>}
RawPersonNames ==
    { <<>>, <<" ">>, <<" ", "A", " ">>, <<" ", "J", "o", " ">>, <<"J", "o">> }

AttrIdArgs == 1..MaxAttrId
QueueIdArgs == 1..MaxQueueId

VARIABLES
    USE_POSTGRES,   \* app.py:16
    attractions,    \* table attractions: set of rows
    queue,          \* table queue: set of rows (committed)
    nextAttrId,     \* id generator of attractions (AUTOINCREMENT / SERIAL)
    nextQueueId,    \* id generator of queue
    clock,          \* CURRENT_TIMESTAMP
    pc,             \* per request: position in its handler
    op,             \* per request: the operation being served
    arg,            \* per request: route and form parameters
    attraction,     \* per request: local `attraction` (fetchone)
    queue_count,    \* per request: local `queue_count`
    pending,        \* per request: queue ids deleted by its transaction
    result          \* per request: the response

vars == <<USE_POSTGRES, attractions, queue, nextAttrId, nextQueueId, clock,
          pc, op, arg, attraction, queue_count, pending, result>>

(* ------------------------------ values -------------------------------- *)
\* fetchone() returning None
NoRow == [id |-> 0, name |-> "", description |-> "", duration_minutes |-> 0]

NoArg == [attraction_id |-> 0, queue_id |-> 0, method |-> "POST", name |-> "",
          description |-> "", duration_minutes |-> 0, person_name |-> <<>>]

NoResult == [status |-> "none"]

(* ------------------------------ helpers ------------------------------- *)
IsSpace(c) == c = " "

RECURSIVE LStrip(_)
LStrip(s) == IF s # <<>> /\ IsSpace(Head(s)) THEN LStrip(Tail(s)) ELSE s

RECURSIVE RStrip(_)
RStrip(s) ==
    IF s # <<>> /\ IsSpace(s[Len(s)]) THEN RStrip(SubSeq(s, 1, Len(s) - 1)) ELSE s

\* str.strip()
Strip(s) == RStrip(LStrip(s))

SelectAttraction_AnyRow(aid) ==
    IF attractions # {} THEN CHOOSE a \in attractions : TRUE ELSE NoRow

\* SELECT * FROM attractions WHERE id = ?  ... fetchone()
SelectAttraction(aid) ==
    IF \E a \in attractions : a.id = aid
      THEN CHOOSE a \in attractions : a.id = aid
      ELSE NoRow

\* rows of queue WHERE attraction_id = ?
QueueOf(q, aid) == {e \in q : e.attraction_id = aid}

\* SELECT COUNT(*) FROM queue WHERE attraction_id = ?
CountQueue(aid) == Cardinality(QueueOf(queue, aid))

\* int(request.form.get('duration_minutes', 5))
FormDuration(f) == IF f = <<>> THEN 5 ELSE f[1]

\* x or 5
OrFive(x) == IF x = 0 THEN 5 ELSE x

(* ---------------------------- transactions ---------------------------- *)
\* a request that has executed a write statement and not yet committed
InWriteTx(q) == pc[q] = "da_delete_attraction"

\* Whether p's write statement, touching the queue rows `ids`, can run now.
\* SQLite: one writer at a time.  PostgreSQL: rows deleted by an open
\* transaction are locked until it ends.
CanWrite(p, ids) ==
    \A q \in Procs \ {p} :
        InWriteTx(q) => (USE_POSTGRES /\ pending[q] \cap ids = {})

(* ------------------------- request bookkeeping ------------------------ *)
Idle(p) == pc[p] = "idle"

Begin(p, o, a) ==
    /\ Idle(p)
    /\ op' = [op EXCEPT ![p] = o]
    /\ arg' = [arg EXCEPT ![p] = a]

Goto(p, l) == pc' = [pc EXCEPT ![p] = l]

Return(p, r) ==
    /\ pc' = [pc EXCEPT ![p] = "done"]
    /\ result' = [result EXCEPT ![p] = r]

\* the response has been sent; the handler's locals are gone
Respond(p) ==
    /\ pc[p] = "done"
    /\ pc' = [pc EXCEPT ![p] = "idle"]
    /\ op' = [op EXCEPT ![p] = "none"]
    /\ arg' = [arg EXCEPT ![p] = NoArg]
    /\ attraction' = [attraction EXCEPT ![p] = NoRow]
    /\ queue_count' = [queue_count EXCEPT ![p] = 0]
    /\ pending' = [pending EXCEPT ![p] = {}]
    /\ result' = [result EXCEPT ![p] = NoResult]
    /\ UNCHANGED <<USE_POSTGRES, attractions, queue, nextAttrId, nextQueueId, clock>>

Tick ==
    /\ clock < MaxClock
    /\ clock' = clock + 1
    /\ UNCHANGED <<USE_POSTGRES, attractions, queue, nextAttrId, nextQueueId,
                   pc, op, arg, attraction, queue_count, pending, result>>

(* ---------------------------- add_attraction -------------------------- *)
NameTaken_Never(name, exceptId) == FALSE

\* name TEXT NOT NULL UNIQUE: another row already has this name
NameTaken(name, exceptId) ==
    \E a \in attractions : a.name = name /\ a.id # exceptId

Truthy_Always(name) == TRUE

\* if name:
Truthy(name) == name # ""

AddAttraction(p, name, description, durField) ==
    LET duration_minutes == FormDuration(durField)
        row == [id |-> nextAttrId, name |-> name, description |-> description,
                duration_minutes |-> duration_minutes]
    IN
    /\ Begin(p, "add_attraction",
             [NoArg EXCEPT !.name = name, !.description = description,
                           !.duration_minutes = duration_minutes])
    /\ IF ~Truthy(name)
         THEN /\ Return(p, [status |-> "ignored"])
              /\ UNCHANGED <<attractions, nextAttrId>>
         ELSE /\ nextAttrId <= MaxAttrId
              /\ CanWrite(p, {})
              /\ IF NameTaken(name, 0)
                   THEN /\ Return(p, [status |-> "DuplicateName"])
                        /\ UNCHANGED attractions
                        \* a SERIAL value is drawn before the constraint is checked
                        /\ nextAttrId' = IF USE_POSTGRES THEN nextAttrId + 1 ELSE nextAttrId
                   ELSE /\ attractions' = attractions \cup {row}
                        /\ nextAttrId' = nextAttrId + 1
                        /\ Return(p, [status |-> "created", id |-> row.id])
    /\ UNCHANGED <<USE_POSTGRES, queue, nextQueueId, clock,
                   attraction, queue_count, pending>>

(* ----------------------------- add_to_queue --------------------------- *)
ValidPersonName_NonEmpty(person_name) == person_name # <<>>

\* not (not person_name) and not (len(person_name) < 2)
ValidPersonName(person_name) == person_name # <<>> /\ ~(Len(person_name) < 2)

AddToQueue(p, attraction_id, raw) ==
    LET person_name == Strip(raw)
        found == SelectAttraction(attraction_id)
    IN
    /\ Begin(p, "add_to_queue",
             [NoArg EXCEPT !.attraction_id = attraction_id, !.person_name = raw])
    /\ IF ~ValidPersonName(person_name)
         THEN /\ Return(p, [status |-> "InvalidName"])
              /\ UNCHANGED attraction
         ELSE IF found = NoRow
           THEN /\ Return(p, [status |-> "NotFound"])
                /\ UNCHANGED attraction
           ELSE /\ attraction' = [attraction EXCEPT ![p] = found]
                /\ Goto(p, "atq_count")
                /\ UNCHANGED result
    /\ UNCHANGED <<USE_POSTGRES, attractions, queue, nextAttrId, nextQueueId, clock,
                   queue_count, pending>>

AtqCount(p) ==
    /\ pc[p] = "atq_count"
    /\ queue_count' = [queue_count EXCEPT ![p] = CountQueue(arg[p].attraction_id)]
    /\ Goto(p, "atq_insert")
    /\ UNCHANGED <<USE_POSTGRES, attractions, queue, nextAttrId, nextQueueId, clock,
                   op, arg, attraction, pending, result>>

NewQueueId_MaxPlusOne ==
    IF queue = {} THEN 1
    ELSE 1 + (CHOOSE i \in {e.id : e \in queue} : \A e \in queue : e.id <= i)

\* queue.id: INTEGER PRIMARY KEY AUTOINCREMENT / SERIAL PRIMARY KEY
NewQueueId == nextQueueId

InsertQueue_ReplacesLine(q, row) ==
    {e \in q : e.attraction_id # row.attraction_id} \cup {row}

\* INSERT INTO queue (attraction_id, person_name) VALUES (?, ?)
InsertQueue(q, row) == q \cup {row}

AtqInsert(p) ==
    LET attraction_id == arg[p].attraction_id
        row == [id |-> NewQueueId, attraction_id |-> attraction_id,
                person_name |-> Strip(arg[p].person_name), timestamp |-> clock]
        new_queue_count == queue_count[p] + 1
        estimated_wait == new_queue_count * OrFive(attraction[p].duration_minutes)
    IN
    /\ pc[p] = "atq_insert"
    /\ nextQueueId <= MaxQueueId
    /\ CanWrite(p, {})
    /\ nextQueueId' = nextQueueId + 1
    /\ IF USE_POSTGRES /\ SelectAttraction(attraction_id) = NoRow
         THEN \* FOREIGN KEY (attraction_id): the INSERT raises
              /\ Return(p, [status |-> "StorageError"])
              /\ UNCHANGED queue
         ELSE /\ queue' = InsertQueue(queue, row)
              /\ Return(p, [status |-> "enqueued", entry_id |-> row.id,
                            attraction_id |-> attraction_id,
                            new_queue_count |-> new_queue_count,
                            estimated_wait |-> estimated_wait])
    /\ UNCHANGED <<USE_POSTGRES, attractions, nextAttrId, clock,
                   op, arg, attraction, queue_count, pending>>

(* ------------------------- ordered query results ----------------------- *)
\* all sequences that list every element of S exactly once
Listings(S) ==
    {f \in [1..Cardinality(S) -> S] : \A i, j \in 1..Cardinality(S) : f[i] = f[j] => i = j}

\* SELECT * FROM queue WHERE attraction_id = ? ORDER BY timestamp
\* Rows with equal timestamps come in an order the database does not define.
OrderedByTimestamp(f) == \A i, j \in DOMAIN f : i < j => f[i].timestamp <= f[j].timestamp

SelectQueue(aid) == {f \in Listings(QueueOf(queue, aid)) : OrderedByTimestamp(f)}

NameRank(n) == CHOOSE i \in 1..Len(NameOrder) : NameOrder[i] = n

\* ... ORDER BY a.name
OrderedByName(f) == \A i, j \in DOMAIN f : i < j => NameRank(f[i].name) <= NameRank(f[j].name)

\* one row of index's query: LEFT JOIN queue, GROUP BY attraction
IndexRow(a) ==
    [id |-> a.id, name |-> a.name, description |-> a.description,
     duration_minutes |-> a.duration_minutes,
     queue_count |-> CountQueue(a.id),
     estimated_wait_minutes |-> CountQueue(a.id) * a.duration_minutes]

SelectIndex_InnerJoin ==
    {f \in Listings({IndexRow(a) : a \in {x \in attractions : CountQueue(x.id) > 0}}) :
        OrderedByName(f)}

\* SELECT a.*, COUNT(q.id), COUNT(q.id) * a.duration_minutes
\* FROM attractions a LEFT JOIN queue q ... GROUP BY ... ORDER BY a.name
SelectIndex == {f \in Listings({IndexRow(a) : a \in attractions}) : OrderedByName(f)}

(* -------------------------------- index ------------------------------- *)
Index(p) ==
    /\ Begin(p, "index", NoArg)
    /\ \E rows \in SelectIndex : Return(p, [status |-> "ok", attractions |-> rows])
    /\ UNCHANGED <<USE_POSTGRES, attractions, queue, nextAttrId, nextQueueId, clock,
                   attraction, queue_count, pending>>

(* --------------------------- attraction_detail ------------------------ *)
AttractionDetail(p, attraction_id) ==
    /\ Begin(p, "attraction_detail", [NoArg EXCEPT !.attraction_id = attraction_id])
    /\ attraction' = [attraction EXCEPT ![p] = SelectAttraction(attraction_id)]
    /\ Goto(p, "ad_queue")
    /\ UNCHANGED <<USE_POSTGRES, attractions, queue, nextAttrId, nextQueueId, clock,
                   queue_count, pending, result>>

AdQueue(p) ==
    /\ pc[p] = "ad_queue"
    /\ \E rows \in SelectQueue(arg[p].attraction_id) :
          IF attraction[p] = NoRow
            THEN Return(p, [status |-> "NotFound"])
            ELSE Return(p, [status |-> "ok", attraction |-> attraction[p], queue |-> rows])
    /\ UNCHANGED <<USE_POSTGRES, attractions, queue, nextAttrId, nextQueueId, clock,
                   op, arg, attraction, queue_count, pending>>

(* ------------------------------ next_person --------------------------- *)
SelectQueueItem_Any(qid) == queue

\* SELECT attraction_id FROM queue WHERE id = ?
SelectQueueItem(qid) == {e \in queue : e.id = qid}

NextPerson(p, queue_id) ==
    /\ Begin(p, "next_person", [NoArg EXCEPT !.queue_id = queue_id])
    /\ Goto(p, "np_select")
    /\ UNCHANGED <<USE_POSTGRES, attractions, queue, nextAttrId, nextQueueId, clock,
                   attraction, queue_count, pending, result>>

NpSelect(p) ==
    LET queue_item == SelectQueueItem(arg[p].queue_id) IN
    /\ pc[p] = "np_select"
    /\ IF queue_item # {}
         THEN /\ arg' = [arg EXCEPT ![p].attraction_id =
                             (CHOOSE e \in queue_item : TRUE).attraction_id]
              /\ Goto(p, "np_delete")
              /\ UNCHANGED result
         ELSE /\ Return(p, [status |-> "NotFound"])
              /\ UNCHANGED arg
    /\ UNCHANGED <<USE_POSTGRES, attractions, queue, nextAttrId, nextQueueId, clock,
                   op, attraction, queue_count, pending>>

NpDelete(p) ==
    /\ pc[p] = "np_delete"
    /\ CanWrite(p, {arg[p].queue_id})
    /\ queue' = {e \in queue : e.id # arg[p].queue_id}
    /\ Return(p, [status |-> "processed", attraction_id |-> arg[p].attraction_id,
                  queue_id |-> arg[p].queue_id])
    /\ UNCHANGED <<USE_POSTGRES, attractions, nextAttrId, nextQueueId, clock,
                   op, arg, attraction, queue_count, pending>>

\* dequeue_next: the operator serves the first person of the displayed line,
\* the head of attraction_detail's queue, through next_person.
DequeueNext(p, attraction_id) ==
    \E rows \in SelectQueue(attraction_id) :
        /\ Begin(p, "dequeue_next",
                 [NoArg EXCEPT !.attraction_id = attraction_id,
                               !.queue_id = IF Len(rows) = 0 THEN 0 ELSE rows[1].id])
        /\ IF SelectAttraction(attraction_id) = NoRow
             THEN Return(p, [status |-> "NotFound"])
             ELSE IF Len(rows) = 0
               THEN Return(p, [status |-> "EmptyQueue"])
               ELSE Goto(p, "np_select") /\ UNCHANGED result
        /\ UNCHANGED <<USE_POSTGRES, attractions, queue, nextAttrId, nextQueueId, clock,
                       attraction, queue_count, pending>>

(* ---------------------------- edit_attraction ------------------------- *)
EditAttraction(p, attraction_id, method, name, description, durField) ==
    LET found == SelectAttraction(attraction_id) IN
    /\ Begin(p, "edit_attraction",
             [NoArg EXCEPT !.attraction_id = attraction_id, !.method = method,
                           !.name = name, !.description = description,
                           !.duration_minutes = FormDuration(durField)])
    /\ attraction' = [attraction EXCEPT ![p] = found]
    /\ IF found = NoRow
         THEN Return(p, [status |-> "NotFound"])
         ELSE IF method = "POST" /\ Truthy(name)
           THEN Goto(p, "ea_update") /\ UNCHANGED result
           ELSE Return(p, [status |-> "form", attraction |-> found])
    /\ UNCHANGED <<USE_POSTGRES, attractions, queue, nextAttrId, nextQueueId, clock,
                   queue_count, pending>>

UpdateAttraction_KeepsDescription(a, id, name, description, duration_minutes) ==
    IF a.id = id
      THEN [a EXCEPT !.name = name, !.duration_minutes = duration_minutes]
      ELSE a

\* UPDATE attractions SET name = ?, description = ?, duration_minutes = ? WHERE id = ?
UpdateAttraction(a, id, name, description, duration_minutes) ==
    IF a.id = id
      THEN [a EXCEPT !.name = name, !.description = description,
                     !.duration_minutes = duration_minutes]
      ELSE a

EaUpdate(p) ==
    LET id == arg[p].attraction_id IN
    /\ pc[p] = "ea_update"
    /\ CanWrite(p, {})
    /\ IF SelectAttraction(id) # NoRow /\ NameTaken(arg[p].name, id)
         THEN /\ Return(p, [status |-> "DuplicateName", attraction |-> attraction[p]])
              /\ UNCHANGED attractions
         ELSE /\ attractions' =
                    {UpdateAttraction(a, id, arg[p].name, arg[p].description,
                                      arg[p].duration_minutes) : a \in attractions}
              /\ Return(p, [status |-> "updated"])
    /\ UNCHANGED <<USE_POSTGRES, queue, nextAttrId, nextQueueId, clock,
                   op, arg, attraction, queue_count, pending>>

(* --------------------------- delete_attraction ------------------------ *)
DeleteAttraction(p, attraction_id) ==
    LET found == SelectAttraction(attraction_id) IN
    /\ Begin(p, "delete_attraction", [NoArg EXCEPT !.attraction_id = attraction_id])
    /\ attraction' = [attraction EXCEPT ![p] = found]
    /\ IF found = NoRow
         THEN Return(p, [status |-> "NotFound"])
         ELSE Goto(p, "da_delete_queue") /\ UNCHANGED result
    /\ UNCHANGED <<USE_POSTGRES, attractions, queue, nextAttrId, nextQueueId, clock,
                   queue_count, pending>>

DaDeleteQueue_Autocommit(p) ==
    LET ids == {e.id : e \in QueueOf(queue, arg[p].attraction_id)} IN
    /\ pc[p] = "da_delete_queue"
    /\ CanWrite(p, ids)
    /\ queue' = {e \in queue : e.id \notin ids}
    /\ pending' = [pending EXCEPT ![p] = ids]
    /\ Goto(p, "da_delete_attraction")
    /\ UNCHANGED <<USE_POSTGRES, attractions, nextAttrId, nextQueueId, clock,
                   op, arg, attraction, queue_count, result>>

\* DELETE FROM queue WHERE attraction_id = ?   (not committed yet)
DaDeleteQueue(p) ==
    LET ids == {e.id : e \in QueueOf(queue, arg[p].attraction_id)} IN
    /\ pc[p] = "da_delete_queue"
    /\ CanWrite(p, ids)
    /\ pending' = [pending EXCEPT ![p] = ids]
    /\ Goto(p, "da_delete_attraction")
    /\ UNCHANGED <<USE_POSTGRES, attractions, queue, nextAttrId, nextQueueId, clock,
                   op, arg, attraction, queue_count, result>>

DeleteQueueRows_KeepsRows(q, ids) == q

\* the queue once the rows `ids`, deleted by the transaction, are committed as gone
DeleteQueueRows(q, ids) == {e \in q : e.id \notin ids}

\* DELETE FROM attractions WHERE id = ? ; conn.commit()
DaDeleteAttraction(p) ==
    LET id == arg[p].attraction_id
        left == DeleteQueueRows(queue, pending[p])
    IN
    /\ pc[p] = "da_delete_attraction"
    /\ IF USE_POSTGRES /\ SelectAttraction(id) # NoRow /\ QueueOf(left, id) # {}
         THEN \* FOREIGN KEY (attraction_id): the DELETE raises, nothing is committed
              /\ Return(p, [status |-> "StorageError"])
              /\ UNCHANGED <<attractions, queue>>
         ELSE /\ queue' = left
              /\ attractions' = {a \in attractions : a.id # id}
              /\ Return(p, [status |-> "deleted"])
    /\ UNCHANGED <<USE_POSTGRES, nextAttrId, nextQueueId, clock,
                   op, arg, attraction, queue_count, pending>>

(* ------------------------------ clear_queue --------------------------- *)
ClearQueue(p, attraction_id) ==
    LET found == SelectAttraction(attraction_id) IN
    /\ Begin(p, "clear_queue", [NoArg EXCEPT !.attraction_id = attraction_id])
    /\ attraction' = [attraction EXCEPT ![p] = found]
    /\ IF found = NoRow
         THEN Return(p, [status |-> "NotFound"])
         ELSE Goto(p, "cq_delete") /\ UNCHANGED result
    /\ UNCHANGED <<USE_POSTGRES, attractions, queue, nextAttrId, nextQueueId, clock,
                   queue_count, pending>>

DeleteQueueOf_All(q, aid) == {}

\* DELETE FROM queue WHERE attraction_id = ?
DeleteQueueOf(q, aid) == {e \in q : e.attraction_id # aid}

CqDelete(p) ==
    LET ids == {e.id : e \in QueueOf(queue, arg[p].attraction_id)} IN
    /\ pc[p] = "cq_delete"
    /\ CanWrite(p, ids)
    /\ queue' = DeleteQueueOf(queue, arg[p].attraction_id)
    /\ Return(p, [status |-> "cleared"])
    /\ UNCHANGED <<USE_POSTGRES, attractions, nextAttrId, nextQueueId, clock,
                   op, arg, attraction, queue_count, pending>>

(* ---------------------------- storage failure ------------------------ *)
\* A statement of delete_attraction or clear_queue, or their commit, raises
\* (connection lost, disk error).  Neither handler catches it: the request
\* ends with an error response, commit() is never reached and the connection
\* is dropped, so whatever the transaction deleted so far is rolled back.
StorageFails(p) ==
    /\ pc[p] \in {"da_delete_queue", "da_delete_attraction", "cq_delete"}
    /\ Return(p, [status |-> "StorageError"])
    /\ UNCHANGED <<USE_POSTGRES, attractions, queue, nextAttrId, nextQueueId, clock,
                   op, arg, attraction, queue_count, pending>>

(* --------------------------- the specification ------------------------ *)
Init ==
    /\ USE_POSTGRES \in BOOLEAN
    /\ attractions = {}
    /\ queue = {}
    /\ nextAttrId = 1
    /\ nextQueueId = 1
    /\ clock = 0
    /\ pc = [p \in Procs |-> "idle"]
    /\ op = [p \in Procs |-> "none"]
    /\ arg = [p \in Procs |-> NoArg]
    /\ attraction = [p \in Procs |-> NoRow]
    /\ queue_count = [p \in Procs |-> 0]
    /\ pending = [p \in Procs |-> {}]
    /\ result = [p \in Procs |-> NoResult]

\* a request arrives at p and runs up to its first statement
Reads(p) ==
    \/ Index(p)
    \/ \E a \in AttrIdArgs : AttractionDetail(p, a)
    \/ AdQueue(p)

\* the operator's view of the line followed by next_person on its head
Serves(p) == \E a \in AttrIdArgs : DequeueNext(p, a)

Writes(p, names, descriptions, durFields, raws) ==
    \/ \E n \in names, d \in descriptions, f \in durFields : AddAttraction(p, n, d, f)
    \/ \E a \in AttrIdArgs, raw \in raws : AddToQueue(p, a, raw)
    \/ \E q \in QueueIdArgs : NextPerson(p, q)
    \* a GET carries no form
    \/ \E a \in AttrIdArgs : EditAttraction(p, a, "GET", "", "", <<>>)
    \/ \E a \in AttrIdArgs, n \in names, d \in descriptions, f \in durFields :
          EditAttraction(p, a, "POST", n, d, f)
    \/ \E a \in AttrIdArgs : DeleteAttraction(p, a)
    \/ \E a \in AttrIdArgs : ClearQueue(p, a)

\* the next statement of the request p is serving
Statement(p) ==
    \/ AtqCount(p)
    \/ AtqInsert(p)
    \/ NpSelect(p)
    \/ NpDelete(p)
    \/ EaUpdate(p)
    \/ DaDeleteQueue(p)
    \/ DaDeleteAttraction(p)
    \/ CqDelete(p)
    \/ Respond(p)

\* one request at a time, over all inputs
Next ==
    \/ Tick
    \/ Reads(1)
    \/ Serves(1)
    \/ Writes(1, Names, Descriptions, DurationFields, RawPersonNames)
    \/ Statement(1)
    \/ StorageFails(1)

Spec == Init /\ [][Next]_vars

\* concurrent requests that write: statements of different requests interleave
NextConc ==
    \/ \E p \in Procs :
          \/ Writes(p, Names, {""}, {<<>>}, {<<"J", "o">>})
          \/ Statement(p)

SpecConc == Init /\ [][NextConc]_vars

(* ======================================================================= *)
(*                               Properties                                *)
(* ======================================================================= *)
Depth(q, aid) == Cardinality(QueueOf(q, aid))

Exists(aid) == \E a \in attractions : a.id = aid

\* e arrived no later than x: smaller timestamp, ties by smaller id
Before(e, x) ==
    \/ e.timestamp < x.timestamp
    \/ e.timestamp = x.timestamp /\ e.id <= x.id

\* p's request completes with this step
Completes(p, o) == op'[p] = o /\ pc[p] # "done" /\ pc'[p] = "done"

(* C1: dequeue_next removes the entry of the attraction with the smallest  *)
(* enqueue timestamp, ties broken by the smallest id (so entries leave in  *)
(* the order they were enqueued), and depth decreases by exactly one.      *)
C1_DequeueNextIsFifo ==
    [][\A p \in Procs :
         (Completes(p, "dequeue_next") /\ result'[p].status = "processed") =>
            LET aid == arg[p].attraction_id
                line == QueueOf(queue, aid)
            IN \E e \in line :
                  /\ e.id = result'[p].queue_id
                  /\ \A x \in line : Before(e, x)
                  /\ queue' = queue \ {e}
                  /\ Depth(queue', aid) = Depth(queue, aid) - 1
      ]_vars

(* C2: after an enqueue the estimated wait it reports, and in every list   *)
(* the estimated wait shown for an attraction, equal the attraction's      *)
(* depth times its stored service duration, whatever the stored value.     *)
C2_EstimatedWaitIsDepthTimesDuration ==
    \A p \in Procs :
        pc[p] = "done" =>
          /\ (op[p] = "add_to_queue" /\ result[p].status = "enqueued") =>
                LET a == SelectAttraction(arg[p].attraction_id) IN
                result[p].estimated_wait =
                    Depth(queue, a.id) * a.duration_minutes
          /\ op[p] = "index" =>
                \A i \in DOMAIN result[p].attractions :
                    LET row == result[p].attractions[i] IN
                    row.estimated_wait_minutes =
                        Depth(queue, row.id) * SelectAttraction(row.id).duration_minutes

(* C3: delete on an existing attraction, unless the storage fails, succeeds *)
(* and then leaves neither the attraction nor any queue entry of it;       *)
(* afterwards attraction_detail (the depth and list_entries view) answers  *)
(* NotFound for that id; delete on an unknown id answers NotFound and      *)
(* changes nothing.                                                        *)
C3_DeleteCascades ==
    [][\A p \in Procs :
         LET aid == arg'[p].attraction_id IN
         /\ (Idle(p) /\ op'[p] = "delete_attraction" /\ ~Exists(aid)) =>
               /\ pc'[p] = "done"
               /\ result'[p].status = "NotFound"
               /\ UNCHANGED <<attractions, queue>>
         /\ (Completes(p, "delete_attraction") /\ Exists(aid)) =>
               /\ result'[p].status \in {"deleted", "StorageError"}
               /\ result'[p].status = "deleted" =>
                     /\ attractions' = {a \in attractions : a.id # aid}
                     /\ queue' = {e \in queue : e.attraction_id # aid}
         /\ (Completes(p, "attraction_detail") /\ ~Exists(aid)) =>
               result'[p].status = "NotFound"
      ]_vars

C3_Witness ==
    \E p \in Procs :
        /\ pc[p] = "done" /\ op[p] = "delete_attraction"
        /\ result[p].status = "deleted"
        /\ Cardinality(pending[p]) = 3
        /\ ~Exists(arg[p].attraction_id)
        /\ QueueOf(queue, arg[p].attraction_id) = {}

(* C4: once a delete of an attraction and a concurrent enqueue on it have  *)
(* both finished, no queue entry refers to a non-existent attraction.      *)
C4_NoDanglingEntry ==
    (\A p \in Procs : pc[p] \in {"idle", "done"}) =>
        \A e \in queue : Exists(e.attraction_id)

(* C5: no entry is reported as successfully dequeued by more than one     *)
(* call, and no two enqueues that report success report the same entry.    *)
C5_NoEntryDequeuedTwice ==
    \A p, q \in Procs :
        (p # q /\ pc[p] = "done" /\ pc[q] = "done") =>
           /\ (/\ op[p] \in {"next_person", "dequeue_next"}
               /\ op[q] \in {"next_person", "dequeue_next"}
               /\ result[p].status = "processed"
               /\ result[q].status = "processed") =>
                  result[p].queue_id # result[q].queue_id
           /\ (/\ op[p] = "add_to_queue" /\ op[q] = "add_to_queue"
               /\ result[p].status = "enqueued"
               /\ result[q].status = "enqueued") =>
                  result[p].entry_id # result[q].entry_id

(* C6: the depth and the estimated wait that enqueue reports are those of  *)
(* the state right after its insert.                                       *)
C6_EnqueueReportsPostInsertionDepth ==
    [][\A p \in Procs :
         (Completes(p, "add_to_queue") /\ result'[p].status = "enqueued") =>
            LET aid == result'[p].attraction_id IN
            /\ result'[p].new_queue_count = Depth(queue', aid)
            /\ result'[p].estimated_wait =
                  Depth(queue', aid) * OrFive(attraction[p].duration_minutes)
      ]_vars

(* C7: no two attractions ever have the same name; create with a name that *)
(* exists answers DuplicateName and leaves the registry unchanged, with    *)
(* other create and update requests in progress or not.                    *)
UniqueNames == \A a, b \in attractions : a.name = b.name => a = b

C7_NamesUnique ==
    /\ []UniqueNames
    /\ [][\A p \in Procs :
            (Completes(p, "add_attraction")
               /\ \E a \in attractions : a.name = arg'[p].name) =>
                  /\ result'[p].status = "DuplicateName"
                  /\ attractions' = attractions
         ]_vars

C7_Witness ==
    \E p, q \in Procs :
        /\ p # q
        /\ pc[p] = "done" /\ op[p] = "add_attraction"
        /\ result[p].status = "DuplicateName"
        /\ pc[q] = "done" /\ op[q] = "edit_attraction"
        /\ result[q].status = "updated"
        /\ arg[q].name = arg[p].name
        /\ Cardinality(attractions) = 2

(* C8 as stated: update answers NotFound for an absent id and              *)
(* DuplicateName when another attraction has the new name, changing        *)
(* nothing; for any other new name, its own or an unused one, it succeeds  *)
(* and replaces name, description and service duration together.           *)
OtherHasName(name, id) == \E x \in attractions : x.id # id /\ x.name = name

UpdateOutcome(p, names) ==
    LET a == arg'[p]
        id == a.attraction_id
    IN
    /\ ~Exists(id) =>
          /\ result'[p].status = "NotFound"
          /\ attractions' = attractions
    /\ (Exists(id) /\ OtherHasName(a.name, id)) =>
          /\ result'[p].status = "DuplicateName"
          /\ attractions' = attractions
    /\ (Exists(id) /\ ~OtherHasName(a.name, id) /\ a.name \in names) =>
          /\ result'[p].status = "updated"
          /\ attractions' =
                {x \in attractions : x.id # id} \cup
                {[id |-> id, name |-> a.name, description |-> a.description,
                  duration_minutes |-> a.duration_minutes]}

C8_UpdateAsStated ==
    [][\A p \in Procs :
         (Completes(p, "edit_attraction") /\ arg'[p].method = "POST") =>
            UpdateOutcome(p, Names)
      ]_vars

(* C8 amended: the same, the success case being for a non-empty new name   *)
(* (with an empty name nothing is updated and no error is answered).       *)
C8_UpdateNonEmptyName ==
    [][\A p \in Procs :
         (Completes(p, "edit_attraction") /\ arg'[p].method = "POST") =>
            /\ UpdateOutcome(p, Names \ {""})
            /\ arg'[p].name = "" => attractions' = attractions
      ]_vars

C8_Witness ==
    \E p \in Procs :
        /\ pc[p] = "done" /\ op[p] = "edit_attraction"
        /\ result[p].status = "updated"
        /\ Cardinality(attractions) = 2
        /\ arg[p].name = attraction[p].name
        /\ arg[p].description # attraction[p].description
        /\ arg[p].duration_minutes # attraction[p].duration_minutes
        /\ \E x \in attractions :
              /\ x.id = arg[p].attraction_id
              /\ x.description = arg[p].description
              /\ x.duration_minutes = arg[p].duration_minutes

(* C9: enqueue with a person name that trims to fewer than 2 characters    *)
(* answers InvalidName and creates no entry; a name that trims to 2 or     *)
(* more is accepted; every stored entry's name trims to 2 or more.         *)
NonSpace(s) == {i \in 1..Len(s) : s[i] # " "}

Least(S) == CHOOSE i \in S : \A j \in S : i <= j

Greatest(S) == CHOOSE i \in S : \A j \in S : j <= i

TrimmedLen(s) ==
    IF NonSpace(s) = {} THEN 0 ELSE Greatest(NonSpace(s)) - Least(NonSpace(s)) + 1

C9_PersonNameValidated ==
    /\ [](\A e \in queue : TrimmedLen(e.person_name) >= 2)
    /\ [][\A p \in Procs :
            Completes(p, "add_to_queue") =>
               LET raw == arg'[p].person_name IN
               /\ TrimmedLen(raw) < 2 =>
                     /\ result'[p].status = "InvalidName"
                     /\ queue' = queue
               /\ TrimmedLen(raw) >= 2 => result'[p].status # "InvalidName"
               /\ (TrimmedLen(raw) >= 2 /\ Exists(arg'[p].attraction_id)) =>
                     /\ result'[p].status = "enqueued"
                     /\ \E e \in queue' : e.id = result'[p].entry_id
         ]_vars

C9_Witness ==
    \E p \in Procs :
        /\ pc[p] = "done" /\ op[p] = "add_to_queue"
        /\ result[p].status = "enqueued"
        /\ Len(arg[p].person_name) = 4 /\ TrimmedLen(arg[p].person_name) = 2
        /\ \E e \in queue : e.id = result[p].entry_id /\ Len(e.person_name) = 2

(* C10: enqueue on an attraction id that does not exist fails, with        *)
(* NotFound whenever the person name is valid, and leaves all queues and   *)
(* all attractions unchanged.                                              *)
C10_EnqueueUnknownAttraction ==
    [][\A p \in Procs :
         (Idle(p) /\ op'[p] = "add_to_queue" /\ ~Exists(arg'[p].attraction_id)) =>
            /\ pc'[p] = "done"
            /\ result'[p].status \in {"NotFound", "InvalidName"}
            /\ TrimmedLen(arg'[p].person_name) >= 2 => result'[p].status = "NotFound"
            /\ UNCHANGED <<attractions, queue, nextAttrId, nextQueueId>>
      ]_vars

C10_Witness ==
    \E p \in Procs :
        /\ pc[p] = "done" /\ op[p] = "add_to_queue"
        /\ result[p].status = "NotFound"
        /\ ~Exists(arg[p].attraction_id)
        /\ attractions # {} /\ queue # {}

(* C11: a successful enqueue on attraction a adds exactly one entry, after *)
(* every entry already waiting for a (later timestamp, or the same one and *)
(* a greater id), so a's depth grows by exactly one; the entries already   *)
(* waiting, every other queue and all attractions stay as they were.       *)
C11_EnqueueAppendsOne ==
    [][\A p \in Procs :
         (Completes(p, "add_to_queue") /\ result'[p].status = "enqueued") =>
            LET aid == arg[p].attraction_id IN
            \E e \in queue' \ queue :
               /\ queue' = queue \cup {e}
               /\ e.id = result'[p].entry_id
               /\ e.attraction_id = aid
               /\ \A x \in QueueOf(queue, aid) : x.id # e.id /\ Before(x, e)
               /\ Depth(queue', aid) = Depth(queue, aid) + 1
               /\ \A b \in AttrIdArgs \ {aid} : QueueOf(queue', b) = QueueOf(queue, b)
               /\ attractions' = attractions
      ]_vars

C11_Witness ==
    \E p \in Procs :
        /\ pc[p] = "done" /\ op[p] = "add_to_queue"
        /\ result[p].status = "enqueued"
        /\ Depth(queue, arg[p].attraction_id) = 2
        /\ \E b \in AttrIdArgs \ {arg[p].attraction_id} : Depth(queue, b) = 1
        /\ \E x, e \in QueueOf(queue, arg[p].attraction_id) :
              x.id < e.id /\ e.id = result[p].entry_id /\ x.timestamp = e.timestamp


(* C12: every stored attraction has a positive duration_minutes: a create  *)
(* or an update whose duration is absent, zero or negative stores 5.       *)
C12_DurationsPositive ==
    \A a \in attractions : a.duration_minutes > 0

(* C13: next_person on the id of a waiting entry removes exactly that      *)
(* entry, wherever it stands in its line, and returns the attraction_id it *)
(* belonged to; every other entry stays as it was (same id and timestamp,  *)
(* hence the same relative order) and the attractions are untouched.  On   *)
(* an id that is in no queue it ends as NotFound and changes nothing.      *)
C13_DequeueById ==
    [][\A p \in Procs :
         Completes(p, "next_person") =>
            LET qid == arg[p].queue_id IN
            IF \E e \in queue : e.id = qid
              THEN \E e \in queue :
                      /\ e.id = qid
                      /\ result'[p].status = "processed"
                      /\ result'[p].attraction_id = e.attraction_id
                      /\ queue' = queue \ {e}
                      /\ attractions' = attractions
              ELSE /\ result'[p].status = "NotFound"
                   /\ queue' = queue
                   /\ attractions' = attractions
      ]_vars

\* the middle one of three entries of a line has been removed
C13_Witness ==
    \E p \in Procs :
        /\ pc[p] = "done" /\ op[p] = "next_person"
        /\ result[p].status = "processed"
        /\ \E x, y \in QueueOf(queue, result[p].attraction_id) :
              x.id < result[p].queue_id /\ result[p].queue_id < y.id

(* C14: clear_queue on an existing attraction, unless the storage fails,   *)
(* removes every entry of that attraction and no entry of another one,     *)
(* leaving its depth 0; when its queue is already empty it succeeds all    *)
(* the same and removes nothing; on an unknown attraction it ends as       *)
(* NotFound and changes nothing.                                           *)
C14_Clear ==
    [][\A p \in Procs :
         Completes(p, "clear_queue") =>
            LET aid == arg'[p].attraction_id IN
            /\ attractions' = attractions
            /\ IF Exists(aid)
                 THEN /\ result'[p].status \in {"cleared", "StorageError"}
                      /\ result'[p].status = "cleared" =>
                            /\ Depth(queue', aid) = 0
                            /\ queue' = queue \ QueueOf(queue, aid)
                            /\ \A b \in AttrIdArgs \ {aid} :
                                  QueueOf(queue', b) = QueueOf(queue, b)
                            /\ (Depth(queue, aid) = 0 => queue' = queue)
                 ELSE /\ result'[p].status = "NotFound"
                      /\ queue' = queue
      ]_vars

\* a line of two has been cleared while another attraction keeps its entry
C14_Witness ==
    \E p \in Procs :
        /\ pc[p] = "done" /\ op[p] = "clear_queue"
        /\ result[p].status = "cleared"
        /\ nextQueueId = 4
        /\ Depth(queue, arg[p].attraction_id) = 0
        /\ \E b \in AttrIdArgs \ {arg[p].attraction_id} : Depth(queue, b) = 1

(* C15: queue entry ids are unique and never reused: every entry that      *)
(* exists has an id below the id sequence, the sequence never goes back,   *)
(* and an entry that appears takes an id at or above the sequence and      *)
(* moves the sequence past it; so a new entry's id is greater than the id  *)
(* of every entry ever created, whatever was dequeued, cleared or deleted  *)
(* in between, and a removed entry never comes back.                       *)
C15_IdsNeverReused ==
    /\ [](\A e \in queue : e.id < nextQueueId)
    /\ [](\A e, x \in queue : e.id = x.id => e = x)
    /\ [][/\ nextQueueId' >= nextQueueId
          /\ \A e \in queue' \ queue : e.id >= nextQueueId /\ e.id < nextQueueId'
          /\ \A e \in queue : e.id \in {x.id : x \in queue'} => e \in queue'
       ]_vars

\* the third entry has just been created after both earlier ones were removed
C15_Witness ==
    \E p \in Procs :
        /\ pc[p] = "done" /\ op[p] = "add_to_queue"
        /\ result[p].status = "enqueued"
        /\ result[p].entry_id = 3
        /\ {e.id : e \in queue} = {3}

(* C16: attraction_detail lists the waiting entries of the attraction, all *)
(* of them and once each, ordered by timestamp ascending and, among equal  *)
(* timestamps, by id ascending; on an unknown attraction it ends as        *)
(* NotFound.                                                               *)
C16_ListOrderedByTimestampThenId ==
    \A p \in Procs :
        (pc[p] = "done" /\ op[p] = "attraction_detail") =>
            LET aid == arg[p].attraction_id IN
            IF Exists(aid)
              THEN /\ result[p].status = "ok"
                   /\ {result[p].queue[i] : i \in DOMAIN result[p].queue} = QueueOf(queue, aid)
                   /\ Len(result[p].queue) = Depth(queue, aid)
                   /\ \A i, j \in DOMAIN result[p].queue :
                         i < j => Before(result[p].queue[i], result[p].queue[j])
              ELSE result[p].status = "NotFound"

\* the duration_minutes the registry holds for aid now
StoredDuration(aid) == (CHOOSE a \in attractions : a.id = aid).duration_minutes

(* C17: an estimated wait is computed from the duration_minutes the        *)
(* registry holds when it is asked for: whatever updates came before, the  *)
(* wait shown by index for an attraction and the wait reported by an       *)
(* enqueue are the depth times the duration stored now; and an update      *)
(* leaves the ids of the attractions and every queue entry as they were.   *)
C17_WaitUsesStoredDuration ==
    /\ [](\A p \in Procs :
            /\ (pc[p] = "done" /\ op[p] = "index") =>
                  \A i \in DOMAIN result[p].attractions :
                     LET row == result[p].attractions[i] IN
                     Exists(row.id) =>
                        row.estimated_wait_minutes =
                            Depth(queue, row.id) * StoredDuration(row.id)
            /\ (pc[p] = "done" /\ op[p] = "add_to_queue"
                  /\ result[p].status = "enqueued" /\ Exists(result[p].attraction_id)) =>
                  result[p].estimated_wait =
                      Depth(queue, result[p].attraction_id)
                         * StoredDuration(result[p].attraction_id))
    /\ [][\A p \in Procs :
            Completes(p, "edit_attraction") =>
               /\ queue' = queue
               /\ {a.id : a \in attractions'} = {a.id : a \in attractions}
       ]_vars

(* C18: delete_attraction and clear_queue are all or nothing: every step   *)
(* of such a request other than its successful end leaves the attractions  *)
(* and the queue entries as they were, and when the request ends with a    *)
(* StorageError the attraction it found is still stored and every entry it *)
(* had deleted in its transaction is still in the queue.                   *)
C18_FailureRollsBack ==
    /\ [][\A p \in Procs :
            (/\ op'[p] \in {"delete_attraction", "clear_queue"}
             /\ ~(pc'[p] = "done" /\ result'[p].status \in {"deleted", "cleared"})) =>
               /\ attractions' = attractions
               /\ queue' = queue
       ]_vars
    /\ [](\A p \in Procs :
            (/\ pc[p] = "done"
             /\ op[p] \in {"delete_attraction", "clear_queue"}
             /\ result[p].status = "StorageError") =>
               /\ attraction[p] \in attractions
               /\ pending[p] \subseteq {e.id : e \in QueueOf(queue, arg[p].attraction_id)})

\* the failure came after the first DELETE of a delete_attraction had run
\* on a line of two
C18_Witness ==
    \E p \in Procs :
        /\ pc[p] = "done" /\ op[p] = "delete_attraction"
        /\ result[p].status = "StorageError"
        /\ ~USE_POSTGRES
        /\ Cardinality(pending[p]) = 2
        /\ Depth(queue, arg[p].attraction_id) = 2
        /\ Exists(arg[p].attraction_id)

\* n is not after m in ascending order of names
NameLeq(n, m) == n = m \/ n = "" \/ (n = "A" /\ m = "B")

(* C19: index lists every stored attraction exactly once, also those with  *)
(* nobody waiting (shown with depth 0 and estimated wait 0), in ascending  *)
(* order of name, each with a depth equal to the number of queue entries   *)
(* that refer to it.                                                       *)
C19_IndexListsAll ==
    \A p \in Procs :
        (pc[p] = "done" /\ op[p] = "index") =>
            LET rows == result[p].attractions IN
            /\ result[p].status = "ok"
            /\ Len(rows) = Cardinality(attractions)
            /\ \A a \in attractions :
                  \E i \in DOMAIN rows :
                     /\ rows[i].id = a.id
                     /\ rows[i].name = a.name
                     /\ rows[i].queue_count = Depth(queue, a.id)
                     /\ (Depth(queue, a.id) = 0 => rows[i].estimated_wait_minutes = 0)
                     /\ \A j \in DOMAIN rows : rows[j].id = a.id => j = i
            /\ \A i, j \in DOMAIN rows : i < j => NameLeq(rows[i].name, rows[j].name)

\* two attractions listed in name order against their id order, the first
\* with nobody waiting and the second with a line of two
C19_Witness ==
    \E p \in Procs :
        /\ pc[p] = "done" /\ op[p] = "index"
        /\ Len(result[p].attractions) = 2
        /\ result[p].attractions[1].name = "A"
        /\ result[p].attractions[1].id = 2
        /\ result[p].attractions[1].queue_count = 0
        /\ result[p].attractions[2].queue_count = 2

(* C20: no stored attraction has an empty name: add_attraction with an     *)
(* empty name stores nothing, and edit_attraction posted with an empty     *)
(* name ends at once and leaves every attraction (name, description and    *)
(* duration_minutes) as it was.                                            *)
C20_NoEmptyName ==
    /\ [](\A a \in attractions : a.name # "")
    /\ [][\A p \in Procs :
            (/\ Idle(p)
             /\ \/ op'[p] = "add_attraction"
                \/ op'[p] = "edit_attraction" /\ arg'[p].method = "POST"
             /\ arg'[p].name = "") =>
               /\ pc'[p] = "done"
               /\ attractions' = attractions
       ]_vars

\* an update with an empty name and other fields than the stored ones has
\* been answered
C20_Witness ==
    \E p \in Procs :
        /\ pc[p] = "done" /\ op[p] = "edit_attraction"
        /\ arg[p].method = "POST" /\ arg[p].name = ""
        /\ \E a \in attractions :
              /\ a.id = arg[p].attraction_id
              /\ a.description # arg[p].description
              /\ a.duration_minutes # arg[p].duration_minutes

====
